---------------------------- MODULE Spec2Model ----------------------------
(***************************************************************************)
(* Model of the asynchronous pipeline engine of neo4j_genai                *)
(* (src/src/neo4j_genai/experimental/pipeline/pipeline.py): the task node  *)
(* status machine, the orchestrator's scheduling and the pipeline's graph  *)
(* assembly and run.                                                       *)
(*                                                                         *)
(* Concurrency is asyncio's: one thread, coroutines that are suspended     *)
(* only where an await really yields.  The per-task asyncio.Lock is never  *)
(* held across an await, so acquiring it never yields; the only yields are *)
(* the component's own run() and asyncio.gather.  Each action below is one *)
(* run of a coroutine from one yield to the next.                          *)
(***************************************************************************)
EXTENDS Integers, Sequences, FiniteSets, Bags, TLC

VARIABLES
    nodes,      \* PipelineGraph._nodes: the names of the components added
    component,  \* TaskPipelineNode.component, per name ("none": no node)
    edges,      \* PipelineGraph._edges, in insertion order
    status,     \* TaskPipelineNode.status, per task name
    store,      \* Pipeline._store: name -> payload, or Absent
    final,      \* Pipeline._final_results: name -> payload, or Absent
    data,       \* the `data` dict handed to each Pipeline.run call, per run
    coros,      \* bag of live run_task coroutines
    failed,     \* the first exception raised under the current run's gather
    phase,      \* where the caller of the pipeline is
    runNo,      \* number of Pipeline.run calls made so far
    calls,      \* per task: component.run invocations since the last reset
    invoked,    \* per task: the inputs of its latest component.run call
    wrote,      \* per task: the run in which its `final` entry was last written
    returned,   \* what the latest Pipeline.run returned
    err,        \* exception raised by the latest API call, or "none"
    lastCall    \* the latest API call and what it saw

vars == <<nodes, component, edges, status, store, final, data, coros, failed, phase,
          runNo, calls, invoked, wrote, returned, err, lastCall>>

graphVars == <<nodes, component, edges>>
runVars == <<store, final, data, coros, failed, runNo, calls, invoked,
             wrote, returned>>

-----------------------------------------------------------------------------
(* Bounds and the small input sets *)

MaxRuns == 2
MaxEdges == 3

Names == {"A", "B", "C"}
\* the component objects handed to add_component / set_component
Components == {"c1", "c2"}
Params == {"x"}

RunStatus == {"UNKNOWN", "SCHEDULED", "WAITING", "RUNNING", "SKIP", "DONE"}

-----------------------------------------------------------------------------
(* Values: what flows through inputs and stores *)

Absent == [kind |-> "absent", v |-> 0]
NoneV == [kind |-> "none", v |-> 0]
IntV(i) == [kind |-> "int", v |-> i]
\* the model_dump() of a component result: the dict {"y": i}
DictV(i) == [kind |-> "dict", v |-> i]

EmptyDict == [p \in {} |-> NoneV]

\* an empty store
AllAbsent == [n \in Names |-> Absent]

\* dict.get(key) on a payload: the field when present, None otherwise
DictGet(payload, field) ==
    IF payload.kind = "dict" /\ field = "y" THEN IntV(payload.v) ELSE NoneV


-----------------------------------------------------------------------------
(* PipelineGraph: the generic container (pipeline_graph.py; not among the  *)
(* sources, modelled from the design document section 4.1)                 *)

\* an edge's data["input_config"]: None, or a dict parameter -> mapping;
\* a mapping string is kept as its "."-separated segments
NoneCfg == [none |-> TRUE, items |-> EmptyDict]
Cfg(items) == [none |-> FALSE, items |-> items]

PipelineEdge(start, end, input_config) ==
    [start |-> start, end |-> end, cfg |-> input_config]

\* the position of the edge keyed (start, end), or 0
EdgeIndex(E, start, end) ==
    IF \E i \in 1..Len(E) : E[i].start = start /\ E[i].end = end
    THEN CHOOSE i \in 1..Len(E) : E[i].start = start /\ E[i].end = end
    ELSE 0

\* add_edge raises KeyError when an endpoint is no node of the graph
add_edge_raises(N, edge) == edge.start \notin N \/ edge.end \notin N

\* add_edge that keeps an earlier edge with the same key next to the new one
add_edge_appends(E, edge) == Append(E, edge)

\* add_edge inserts the edge, or overwrites the one with the same key
add_edge(E, edge) ==
    LET i == EdgeIndex(E, edge.start, edge.end)
    IN  IF i = 0 THEN Append(E, edge) ELSE [E EXCEPT ![i] = edge]

\* add_node raises ValueError when the name is taken
add_node_raises(N, name) == name \in N

\* set_node raises ValueError when the name is not present
set_node_raises(N, name) == name \notin N

next_edges(E, name) == SelectSeq(E, LAMBDA e : e.start = name)

previous_edges(E, name) == SelectSeq(E, LAMBDA e : e.end = name)

roots(N, E) == {n \in N : Len(previous_edges(E, n)) = 0}

is_leaf(E, name) == Len(next_edges(E, name)) = 0

RECURSIVE dfs_visit(_, _, _)
RECURSIVE dfs_edges(_, _, _, _)
\* depth-first visit with white/gray/black colouring; an edge into a gray
\* node is a back edge
dfs_visit(E, node, color) ==
    LET r == dfs_edges(E, next_edges(E, node), 1,
                       [color EXCEPT ![node] = "GRAY"])
    IN  IF r.cyclic THEN r
        ELSE [cyclic |-> FALSE, color |-> [r.color EXCEPT ![node] = "BLACK"]]

dfs_edges(E, es, i, color) ==
    IF i > Len(es) THEN [cyclic |-> FALSE, color |-> color]
    ELSE LET t == es[i].end
         IN  IF color[t] = "GRAY" THEN [cyclic |-> TRUE, color |-> color]
             ELSE IF color[t] = "WHITE"
                  THEN LET r == dfs_visit(E, t, color)
                       IN  IF r.cyclic THEN r
                           ELSE dfs_edges(E, es, i + 1, r.color)
                  ELSE dfs_edges(E, es, i + 1, color)

RECURSIVE dfs_all(_, _, _)
dfs_all(E, todo, color) ==
    IF todo = {} THEN FALSE
    ELSE LET n == CHOOSE m \in todo : TRUE
         IN  IF color[n] = "WHITE"
             THEN LET r == dfs_visit(E, n, color)
                  IN  r.cyclic \/ dfs_all(E, todo \ {n}, r.color)
             ELSE dfs_all(E, todo \ {n}, color)

is_cyclic(N, E) == dfs_all(E, N, [n \in Names |-> "WHITE"])

-----------------------------------------------------------------------------
(* TaskPipelineNode: the status machine *)

\* set_status without the DONE -> RUNNING rule
set_status_raises_same_only(current, new) == new = current

\* set_status that accepts every transition
set_status_raises_never(current, new) == FALSE

\* set_status raises StatusUpdateError
set_status_raises(current, new) ==
    \/ new = current
    \/ new = "RUNNING" /\ current = "DONE"

\* the status after set_status(new)
set_status(current, new) ==
    IF set_status_raises(current, new) THEN current ELSE new

\* read_status that reports a running task as done
read_status_running_as_done(st, name) ==
    IF st[name] = "RUNNING" THEN "DONE" ELSE st[name]

\* read_status: the task's status as stored
read_status(st, name) == st[name]

\* reinitialize that puts the task in WAITING
reinitialize_task_waiting(current) == "WAITING"

\* reinitialize that leaves a DONE task as it is
reinitialize_task_keeps_done(current) ==
    IF current = "DONE" THEN "DONE" ELSE "SCHEDULED"

\* every place where a method of TaskPipelineNode touches self.status, and
\* whether it is inside `async with self._lock`
StatusAccesses ==
    {[op |-> "set_status", access |-> "read",
      site |-> "if status == self.status", guarded |-> TRUE],
     [op |-> "set_status", access |-> "read",
      site |-> "self.status == RunStatus.DONE", guarded |-> TRUE],
     [op |-> "set_status", access |-> "write",
      site |-> "self.status = status", guarded |-> TRUE],
     [op |-> "read_status", access |-> "read",
      site |-> "return self.status", guarded |-> TRUE],
     [op |-> "execute", access |-> "read",
      site |-> "logger.info(... {self.status})", guarded |-> FALSE],
     [op |-> "execute", access |-> "read",
      site |-> "RunResult(status=self.status, ...)", guarded |-> FALSE],
     [op |-> "reinitialize", access |-> "write",
      site |-> "self.status = RunStatus.SCHEDULED", guarded |-> FALSE]}

\* TaskPipelineNode.reinitialize
reinitialize_task(current) == "SCHEDULED"

-----------------------------------------------------------------------------
(* Components: the units of work the tasks wrap.  Every component takes    *)
(* one parameter x and returns the payload {"y": x + offset}.              *)

CompOffset(name) == CASE name = "A" -> 1 [] name = "B" -> 2 [] OTHER -> 4

\* component_inputs: the parameters declared without a default
MandatoryInputs(name) == IF name = "C" THEN {"x"} ELSE {}

\* component_outputs: the declared output fields
ComponentOutputs(name) == {"y"}

\* component.run(**inputs), then model_dump() of its result
component_run(name, inputs) ==
    DictV((IF "x" \in DOMAIN inputs THEN inputs["x"].v ELSE 0)
          + CompOffset(name))

-----------------------------------------------------------------------------
(* Orchestrator *)

\* check_dependencies_complete that finds every dependency met
check_dependencies_complete_raises_never(E, st, name) == FALSE

\* check_dependencies_complete with the comparison inverted
check_dependencies_complete_raises_inverted(E, st, name) ==
    LET dependencies == previous_edges(E, name)
    IN  \E i \in 1..Len(dependencies) :
            read_status(st, dependencies[i].start) = "DONE"

\* check_dependencies_complete raises MissingDependencyError
check_dependencies_complete_raises(E, st, name) ==
    LET dependencies == previous_edges(E, name)
    IN  \E i \in 1..Len(dependencies) :
            read_status(st, dependencies[i].start) # "DONE"

\* next without the look at the destination's own status
NextReady_any_status(E, st, name) ==
    LET possible_nexts == next_edges(E, name)
        ready == SelectSeq(possible_nexts,
                     LAMBDA e : ~check_dependencies_complete_raises(E, st, e.end))
    IN  [i \in 1..Len(ready) |-> ready[i].end]

\* the tasks next yields, in edge order
NextReady(E, st, name) ==
    LET possible_nexts == next_edges(E, name)
        ready == SelectSeq(possible_nexts,
                     LAMBDA e : /\ read_status(st, e.end) \notin {"RUNNING", "DONE"}
                                /\ ~check_dependencies_complete_raises(E, st, e.end))
    IN  [i \in 1..Len(ready) |-> ready[i].end]

\* next that returns after the first task it yields
next_first_only(E, st, name) ==
    LET ready == NextReady(E, st, name)
    IN  IF Len(ready) = 0 THEN <<>> ELSE <<ready[1]>>

\* Orchestrator.next
next(E, st, name) == NextReady(E, st, name)

\* a run that goes on to the completion callback after a no-op execute
noop_successors_as_completed(E, st, name) == NextReady(E, st, name)

\* TaskPipelineNode.run after execute returned None: it returns before the
\* completion callback, so no successor is started
noop_successors(E, st, name) == <<>>

\* dict.update over the incoming edges, in edge order
RECURSIVE MergeInputConfig(_, _, _)
MergeInputConfig(es, i, acc) ==
    IF i > Len(es) THEN acc
    ELSE LET upd == es[i].cfg.items   \* `input_config or {}`
         IN  MergeInputConfig(es, i + 1,
                 [p \in DOMAIN acc \cup DOMAIN upd |->
                     IF p \in DOMAIN upd THEN upd[p] ELSE acc[p]])

\* get_input_config_for_task where the mapping of the earliest edge is kept
get_input_config_for_task_first_wins(E, st, name) ==
    LET prev == previous_edges(E, name)
        rev == [i \in 1..Len(prev) |-> prev[Len(prev) + 1 - i]]
    IN  [raises |-> \E i \in 1..Len(prev) :
                        read_status(st, prev[i].start) # "DONE",
         input_config |-> MergeInputConfig(rev, 1, EmptyDict)]

\* get_input_config_for_task that takes the edges' mappings only when no
\* task is running
get_input_config_for_task_while_idle(E, st, name) ==
    LET prev == previous_edges(E, name)
    IN  [raises |-> \E i \in 1..Len(prev) :
                        read_status(st, prev[i].start) # "DONE",
         input_config |-> IF \E n \in Names : st[n] = "RUNNING"
                          THEN EmptyDict
                          ELSE MergeInputConfig(prev, 1, EmptyDict)]

\* get_input_config_for_task: raises MissingDependencyError when a
\* predecessor is not DONE, else the merged mapping
get_input_config_for_task(E, st, name) ==
    LET prev == previous_edges(E, name)
    IN  [raises |-> \E i \in 1..Len(prev) :
                        read_status(st, prev[i].start) # "DONE",
         input_config |-> MergeInputConfig(prev, 1, EmptyDict)]

\* mapping.split("."): two segments unpack to (component, output_param);
\* any other number raises ValueError and the whole string is the component
RECURSIVE JoinDots(_)
JoinDots(segs) ==
    IF Len(segs) = 0 THEN ""
    ELSE IF Len(segs) = 1 THEN segs[1]
    ELSE segs[1] \o "." \o JoinDots(Tail(segs))

SplitMapping(mapping) ==
    IF Len(mapping) = 2
    THEN [component |-> mapping[1], output_param |-> <<mapping[2]>>]
    ELSE [component |-> JoinDots(mapping), output_param |-> <<>>]

\* Store.get raises KeyError for a key that is not in the store
store_get_raises(st, key) == key \notin Names \/ st[key] = Absent

\* a mapping resolved to the entire stored result, whatever its form
ResolveMapping_always_whole(st, mapping) == st[SplitMapping(mapping).component]

\* the value one mapping resolves to
ResolveMapping(st, mapping) ==
    LET m == SplitMapping(mapping)
        component_result == st[m.component]
    IN  IF Len(m.output_param) = 1
        THEN DictGet(component_result, m.output_param[1])
        ELSE component_result

\* get_component_inputs that rejects a parameter given by the user and
\* mapped by an edge
get_component_inputs_conflict_raises(name, input_config, input_data, st) ==
    LET user == IF name \in DOMAIN input_data THEN input_data[name]
                ELSE EmptyDict
        raises == \/ \E p \in DOMAIN input_config :
                         store_get_raises(st, SplitMapping(input_config[p]).component)
                  \/ DOMAIN input_config \cap DOMAIN user # {}
        inputs == [p \in DOMAIN user \cup DOMAIN input_config |->
                      IF p \in DOMAIN input_config
                      THEN ResolveMapping(st, input_config[p])
                      ELSE user[p]]
    IN  [raises |-> raises,
         inputs |-> IF raises THEN user ELSE inputs,
         input_data |-> IF raises \/ name \notin DOMAIN input_data
                        THEN input_data
                        ELSE [input_data EXCEPT ![name] = inputs]]

\* get_component_inputs where a user-supplied value is kept over the mapped
\* one
get_component_inputs_user_wins(name, input_config, input_data, st) ==
    LET user == IF name \in DOMAIN input_data THEN input_data[name]
                ELSE EmptyDict
        raises == \E p \in DOMAIN input_config :
                      store_get_raises(st, SplitMapping(input_config[p]).component)
        inputs == [p \in DOMAIN user \cup DOMAIN input_config |->
                      IF p \in DOMAIN user THEN user[p]
                      ELSE ResolveMapping(st, input_config[p])]
    IN  [raises |-> raises,
         inputs |-> IF raises THEN user ELSE inputs,
         input_data |-> input_data]

\* get_component_inputs: the inputs of the component, and the run's data
\* dict after the call (the component's entry of `input_data` is the very
\* dict the mapped values are written into)
get_component_inputs(name, input_config, input_data, st) ==
    LET user == IF name \in DOMAIN input_data THEN input_data[name]
                ELSE EmptyDict
        raises == \E p \in DOMAIN input_config :
                      store_get_raises(st, SplitMapping(input_config[p]).component)
        inputs == [p \in DOMAIN user \cup DOMAIN input_config |->
                      IF p \in DOMAIN input_config
                      THEN ResolveMapping(st, input_config[p])
                      ELSE user[p]]
    IN  [raises |-> raises,
         inputs |-> IF raises THEN user ELSE inputs,
         input_data |-> IF raises \/ name \notin DOMAIN input_data
                        THEN input_data
                        ELSE [input_data EXCEPT ![name] = inputs]]

-----------------------------------------------------------------------------
(* Pipeline *)

\* add_component that replaces the node of a name that is taken
add_component_replaces(N, name) == FALSE

\* add_component raises what add_node raises
add_component_raises(N, name) == add_node_raises(N, name)

\* set_component raises what set_node raises
set_component_raises(N, name) == set_node_raises(N, name)

\* connect without the is_cyclic() check
connect_raises_no_cycle_check(N, E, edge) == add_edge_raises(N, edge)

\* connect raises DefinitionError: an endpoint is missing (add_edge's
\* KeyError), or the graph is cyclic once the edge is in
connect_raises(N, E, edge) ==
    \/ add_edge_raises(N, edge)
    \/ is_cyclic(N, add_edge(E, edge))

\* connect that takes the edge out again when it raises
connect_rolls_back(N, E, edge) ==
    IF connect_raises(N, E, edge) THEN E ELSE add_edge(E, edge)

\* connect that inserts the edge before looking at its endpoints
connect_adds_always(N, E, edge) == add_edge(E, edge)

\* the edges after connect: add_edge has run unless it raised
connect(N, E, edge) ==
    IF add_edge_raises(N, edge) THEN E ELSE add_edge(E, edge)

\* validate_inputs_config_for_task that counts only the user's inputs
validate_inputs_config_for_task_raises_user_only(E, name, input_data) ==
    LET prev_edges == previous_edges(E, name)
        actual_inputs ==
            IF name \in DOMAIN input_data THEN DOMAIN input_data[name] ELSE {}
    IN  \/ \E i \in 1..Len(prev_edges) :
              \E p \in DOMAIN prev_edges[i].cfg.items :
                  LET path == prev_edges[i].cfg.items[p]
                  IN  /\ Len(path) = 2
                      /\ path[2] # ""
                      /\ path[2] \notin ComponentOutputs(path[1])
        \/ MandatoryInputs(name) \ actual_inputs # {}

\* validate_inputs_config_for_task raises DefinitionError
validate_inputs_config_for_task_raises(E, name, input_data) ==
    LET prev_edges == previous_edges(E, name)
        actual_inputs ==
            (IF name \in DOMAIN input_data THEN DOMAIN input_data[name] ELSE {})
            \cup UNION {DOMAIN prev_edges[i].cfg.items : i \in 1..Len(prev_edges)}
    IN  \/ \E i \in 1..Len(prev_edges) :
              \E p \in DOMAIN prev_edges[i].cfg.items :
                  LET path == prev_edges[i].cfg.items[p]
                  IN  /\ Len(path) = 2
                      /\ path[2] # ""     \* `if param_name and ...`
                      /\ path[2] \notin ComponentOutputs(path[1])
        \/ MandatoryInputs(name) \ actual_inputs # {}

validate_inputs_config_raises(N, E, input_data) ==
    \E name \in N : validate_inputs_config_for_task_raises(E, name, input_data)

\* show_as_dict that exports a missing input_config as an empty dict
show_as_dict_empty_for_none(N, comp, E) ==
    [components |-> {[name |-> n, component |-> comp[n]] : n \in N},
     connections |->
        [i \in 1..Len(E) |->
            [start |-> E[i].start, end |-> E[i].end,
             input_config |-> IF E[i].cfg.none THEN Cfg(EmptyDict)
                              ELSE E[i].cfg]]]

\* show_as_dict: the PipelineConfig of the pipeline, one ComponentConfig per
\* node and one ConnectionConfig per edge, in edge order (an edge's data is
\* the dict {"input_config": ...}, never empty, so its entry is exported as
\* it is); the config objects carry their fields unchanged
show_as_dict(N, comp, E) ==
    [components |-> {[name |-> n, component |-> comp[n]] : n \in N},
     connections |->
        [i \in 1..Len(E) |->
            [start |-> E[i].start, end |-> E[i].end,
             input_config |-> E[i].cfg]]]

\* the edges from_template adds, one add_edge per connection
RECURSIVE TemplateEdges(_, _, _)
TemplateEdges(connections, i, E) ==
    IF i > Len(connections) THEN E
    ELSE TemplateEdges(connections, i + 1,
             add_edge(E, PipelineEdge(connections[i].start, connections[i].end,
                                      connections[i].input_config)))

\* from_template: add_component for every entry, then add_edge (not connect)
\* for every connection
from_template(template) ==
    LET N == {c.name : c \in template.components}
    IN  [raises |->
            \/ \E c, d \in template.components : c.name = d.name /\ c # d
            \/ \E i \in 1..Len(template.connections) :
                   add_edge_raises(N, PipelineEdge(template.connections[i].start,
                                       template.connections[i].end, NoneCfg)),
         nodes |-> N,
         component |->
            [n \in Names |->
                IF n \in N
                THEN (CHOOSE c \in template.components : c.name = n).component
                ELSE "none"],
         edges |-> TemplateEdges(template.connections, 1, <<>>)]

\* the exception from_template ends with: add_component's ValueError for a
\* name given twice, add_edge's KeyError for a connection to a name that is
\* no component; neither is caught
from_template_error(template) ==
    LET N == {c.name : c \in template.components}
    IN  IF \E c, d \in template.components : c.name = d.name /\ c # d
        THEN "ValueError"
        ELSE IF \E i \in 1..Len(template.connections) :
                    add_edge_raises(N, PipelineEdge(template.connections[i].start,
                                        template.connections[i].end, NoneCfg))
        THEN "KeyError"
        ELSE "none"

\* reinitialize that leaves the result store as it is
reinitialize_keeps_store(N, s) ==
    [status |-> [n \in Names |-> IF n \in N THEN reinitialize_task(s.status[n])
                                 ELSE s.status[n]],
     store |-> s.store,
     final |-> AllAbsent]

\* reinitialize that empties the stores and leaves the statuses as they are
reinitialize_keeps_status(N, s) ==
    [status |-> s.status, store |-> AllAbsent, final |-> AllAbsent]

\* reinitialize that leaves the final-results store as it is
reinitialize_keeps_final(N, s) ==
    [status |-> [n \in Names |-> IF n \in N THEN reinitialize_task(s.status[n])
                                 ELSE s.status[n]],
     store |-> AllAbsent,
     final |-> s.final]

\* Pipeline.reinitialize: both stores emptied, every task SCHEDULED
reinitialize(N, s) ==
    [status |-> [n \in Names |-> IF n \in N THEN reinitialize_task(s.status[n])
                                 ELSE s.status[n]],
     store |-> AllAbsent,
     final |-> AllAbsent]

\* add_result_for_component that puts every result in the final results
add_result_for_component_always_final(stores, name, result, is_final) ==
    [store |-> [stores.store EXCEPT ![name] = result],
     final |-> [stores.final EXCEPT ![name] = result]]

\* add_result_for_component that saves only the results of leaf components
add_result_for_component_final_only(stores, name, result, is_final) ==
    [store |-> IF is_final THEN [stores.store EXCEPT ![name] = result]
               ELSE stores.store,
     final |-> IF is_final THEN [stores.final EXCEPT ![name] = result]
               ELSE stores.final]

\* Pipeline.on_task_complete / add_result_for_component, on the store pair
add_result_for_component(stores, name, result, is_final) ==
    [store |-> [stores.store EXCEPT ![name] = result],
     final |-> IF is_final THEN [stores.final EXCEPT ![name] = result]
               ELSE stores.final]

-----------------------------------------------------------------------------
(* neo4j_queries.get_query_tail: the tail of a search query.  An Optional  *)
(* argument is a record: None, or the value given.                          *)

NoneStr == [none |-> TRUE, v |-> ""]
SomeStr(s) == [none |-> FALSE, v |-> s]
NoneList == [none |-> TRUE, v |-> <<>>]
SomeList(l) == [none |-> FALSE, v |-> l]

\* Python's truth value of an Optional[str] and of an Optional[list]
TruthyStr(arg) == ~arg.none /\ arg.v # ""
TruthyList(arg) == ~arg.none /\ Len(arg.v) > 0

\* ", ".join([f".{prop}" for prop in return_properties])
RECURSIVE JoinProps(_)
JoinProps(props) ==
    IF Len(props) = 0 THEN ""
    ELSE IF Len(props) = 1 THEN "." \o props[1]
    ELSE "." \o props[1] \o ", " \o JoinProps(Tail(props))

\* get_query_tail that looks at return_properties first
get_query_tail_properties_first(retrieval_query, return_properties, fallback_return) ==
    IF TruthyList(return_properties)
    THEN "RETURN node {" \o JoinProps(return_properties.v) \o "} as node, score"
    ELSE IF TruthyStr(retrieval_query) THEN retrieval_query.v
    ELSE IF TruthyStr(fallback_return) THEN fallback_return.v ELSE ""

get_query_tail(retrieval_query, return_properties, fallback_return) ==
    IF TruthyStr(retrieval_query) THEN retrieval_query.v
    ELSE IF TruthyList(return_properties)
    THEN "RETURN node {" \o JoinProps(return_properties.v) \o "} as node, score"
    ELSE IF TruthyStr(fallback_return) THEN fallback_return.v ELSE ""

-----------------------------------------------------------------------------
(* State *)

\* the Pipeline.run calls, and 0 for run_task called outside of them
Runs == 0..MaxRuns

NoData == [n \in {} |-> EmptyDict]
FullData(r) == [n \in Names |-> [p \in Params |-> IntV(10 * r)]]
\* the `data` arguments tried for the r-th call of Pipeline.run
DataChoices(r) == {NoData, FullData(r)}

\* the input_config arguments tried for connect(start, end, ...): none, or
\* a mapping of x from a field of the start component's result or (from B)
\* from its whole result
FieldCfg(start) == Cfg([p \in Params |-> <<start, "y">>])
WholeCfg(start) == Cfg([p \in Params |-> <<start>>])
ConfigsFor(start) ==
    {NoneCfg, IF start = "B" THEN WholeCfg(start) ELSE FieldCfg(start)}

\* the mappings tried for validate_inputs_config: the start component's
\* whole result, its field y, a field it does not declare, an empty field
\* name, and a path of three segments
MaxMapped == 2
MappingsFrom(start) ==
    {<<start>>, <<start, "y">>, <<start, "z">>, <<start, "">>,
     <<start, "y", "z">>}
ValidateConfigs(start) ==
    {NoneCfg} \cup {Cfg([p \in Params |-> m]) : m \in MappingsFrom(start)}

\* the `data` arguments tried for validate_inputs_config: x given for the
\* components of S, or an empty dict given for C
DataFor(S) == [n \in S |-> [p \in Params |-> IntV(10)]]
ValidateData ==
    {DataFor(S) : S \in {{}, {"C"}, {"A", "B"}, Names}}
    \cup {[n \in {"C"} |-> EmptyDict]}

\* the pipeline on whose tasks run_task is called directly: A feeds B and
\* C, B feeds C
MaxTasks == 2
MaxCalls == 2
TaskEdges ==
    <<PipelineEdge("A", "B", FieldCfg("A")),
      PipelineEdge("A", "C", FieldCfg("A")),
      PipelineEdge("B", "C", WholeCfg("B"))>>

\* the pipeline that is run again after an aborted run: A and B feed C
RetryEdges ==
    <<PipelineEdge("A", "C", FieldCfg("A")),
      PipelineEdge("B", "C", NoneCfg)>>

\* the templates tried for from_template: any components, up to MaxMapped
\* connections between any names
Templates ==
    {[components |-> {[name |-> n, component |-> "c1"] : n \in S},
      connections |-> conns] :
        S \in SUBSET Names,
        conns \in UNION {[1..k -> {[start |-> s, end |-> e, input_config |-> NoneCfg] :
                                      s \in Names, e \in Names}] :
                            k \in 0..MaxMapped}}

\* the arguments tried for get_query_tail
MaxProps == 2
PropNames == {"name", "age", "id"}
PropLists == UNION {[1..k -> PropNames] : k \in 0..MaxProps}
RetrievalQueries == {NoneStr, SomeStr(""), SomeStr("MATCH (n) RETURN n LIMIT 10")}
ReturnProperties == {NoneList} \cup {SomeList(l) : l \in PropLists}
FallbackReturns ==
    {NoneStr, SomeStr(""), SomeStr("RETURN node, score"), SomeStr("HELLO")}

Coro(task, run) ==
    [task |-> task, run |-> run, pc |-> "spawned", inputs |-> EmptyDict]

NoCall == [op |-> "none", a |-> "", b |-> "", prev |-> ""]

\* a Pipeline() with no component
InitEmpty ==
    /\ nodes = {}
    /\ component = [n \in Names |-> "none"]
    /\ edges = <<>>
    /\ status = [n \in Names |-> "UNKNOWN"]
    /\ store = AllAbsent
    /\ final = AllAbsent
    /\ data = [r \in Runs |-> NoData]
    /\ coros = EmptyBag
    /\ failed = "none"
    /\ phase = "build"
    /\ runNo = 0
    /\ calls = [n \in Names |-> 0]
    /\ invoked = [n \in Names |-> EmptyDict]
    /\ wrote = [n \in Names |-> 0]
    /\ returned = AllAbsent
    /\ err = "none"
    /\ lastCall = NoCall

\* the pipeline of TaskEdges, and the data handed to the run_task calls
InitTask ==
    /\ nodes = Names
    /\ component = [n \in Names |-> "c1"]
    /\ edges = TaskEdges
    /\ status = [n \in Names |-> "UNKNOWN"]
    /\ store = AllAbsent
    /\ final = AllAbsent
    /\ data \in {[r \in Runs |-> IF r = 0 THEN d ELSE NoData] :
                    d \in DataChoices(1)}
    /\ coros = EmptyBag
    /\ failed = "none"
    /\ phase = "build"
    /\ runNo = 0
    /\ calls = [n \in Names |-> 0]
    /\ invoked = [n \in Names |-> EmptyDict]
    /\ wrote = [n \in Names |-> 0]
    /\ returned = AllAbsent
    /\ err = "none"
    /\ lastCall = NoCall

\* the pipeline of RetryEdges, assembled and not yet run
InitRetry ==
    /\ nodes = Names
    /\ component = [n \in Names |-> "c1"]
    /\ edges = RetryEdges
    /\ status = [n \in Names |-> "UNKNOWN"]
    /\ store = AllAbsent
    /\ final = AllAbsent
    /\ data = [r \in Runs |-> NoData]
    /\ coros = EmptyBag
    /\ failed = "none"
    /\ phase = "build"
    /\ runNo = 0
    /\ calls = [n \in Names |-> 0]
    /\ invoked = [n \in Names |-> EmptyDict]
    /\ wrote = [n \in Names |-> 0]
    /\ returned = AllAbsent
    /\ err = "none"
    /\ lastCall = NoCall

\* a Pipeline() after add_component for each name
Init ==
    /\ nodes = Names
    /\ component = [n \in Names |-> "c1"]
    /\ edges = <<>>
    /\ status = [n \in Names |-> "UNKNOWN"]
    /\ store = AllAbsent
    /\ final = AllAbsent
    /\ data = [r \in Runs |-> NoData]
    /\ coros = EmptyBag
    /\ failed = "none"
    /\ phase = "build"
    /\ runNo = 0
    /\ calls = [n \in Names |-> 0]
    /\ invoked = [n \in Names |-> EmptyDict]
    /\ wrote = [n \in Names |-> 0]
    /\ returned = AllAbsent
    /\ err = "none"
    /\ lastCall = NoCall

-----------------------------------------------------------------------------
(* Calls on one task node *)

\* await task.set_status(new)
SetStatus(name, new) ==
    /\ phase = "build"
    /\ name \in nodes
    /\ err' = IF set_status_raises(status[name], new)
              THEN "StatusUpdateError" ELSE "none"
    /\ status' = [status EXCEPT ![name] = set_status(@, new)]
    /\ lastCall' = [op |-> "set_status", a |-> name, b |-> new,
                    prev |-> status[name]]
    /\ UNCHANGED <<graphVars, runVars, phase>>

\* task.reinitialize()
ReinitializeTask(name) ==
    /\ phase = "build"
    /\ name \in nodes
    /\ err' = "none"
    /\ status' = [status EXCEPT ![name] = reinitialize_task(@)]
    /\ lastCall' = [op |-> "reinitialize", a |-> name, b |-> "",
                    prev |-> status[name]]
    /\ UNCHANGED <<graphVars, runVars, phase>>

-----------------------------------------------------------------------------
(* Assembling the pipeline *)

\* pipeline.add_component(k, name): a new TaskPipelineNode (status UNKNOWN)
\* is handed to add_node
AddComponent(name, k) ==
    /\ phase = "build"
    /\ lastCall' = [op |-> "add_component", a |-> name, b |-> k,
                    prev |-> nodes]
    /\ IF add_component_raises(nodes, name)
       THEN /\ err' = "ValueError"
            /\ UNCHANGED <<nodes, component, status>>
       ELSE /\ err' = "none"
            /\ nodes' = nodes \cup {name}
            /\ component' = [component EXCEPT ![name] = k]
            /\ status' = [status EXCEPT ![name] = "UNKNOWN"]
    /\ UNCHANGED <<edges, runVars, phase>>

\* pipeline.set_component(name, k): a new TaskPipelineNode is handed to
\* set_node, which replaces the node of that name
SetComponent(name, k) ==
    /\ phase = "build"
    /\ lastCall' = [op |-> "set_component", a |-> name, b |-> k,
                    prev |-> nodes]
    /\ IF set_component_raises(nodes, name)
       THEN /\ err' = "ValueError"
            /\ UNCHANGED <<nodes, component, status>>
       ELSE /\ err' = "none"
            /\ component' = [component EXCEPT ![name] = k]
            /\ status' = [status EXCEPT ![name] = "UNKNOWN"]
            /\ UNCHANGED nodes
    /\ UNCHANGED <<edges, runVars, phase>>

\* pipeline.connect(start, end, input_config)
Connect(start, end, input_config) ==
    LET edge == PipelineEdge(start, end, input_config)
    IN  /\ phase # "running"
        /\ err' = IF connect_raises(nodes, edges, edge)
                  THEN "DefinitionError" ELSE "none"
        /\ edges' = connect(nodes, edges, edge)
        /\ lastCall' = [op |-> "connect", a |-> start, b |-> end,
                        prev |-> edges, cfg |-> input_config]
        /\ phase' = "build"
        /\ UNCHANGED <<nodes, component, status, runVars>>

\* Pipeline.from_template(template), a class method: it starts from a new
\* Pipeline(); when it raises there is no pipeline
FromTemplate(template) ==
    LET built == from_template(template)
    IN  /\ phase = "build"
        /\ lastCall = NoCall
        /\ err' = from_template_error(template)
        /\ IF built.raises
           THEN UNCHANGED <<graphVars, status>>
           ELSE /\ nodes' = built.nodes
                /\ component' = built.component
                /\ edges' = built.edges
                /\ status' = [n \in Names |-> "UNKNOWN"]
        /\ lastCall' = [op |-> "from_template", a |-> "template", b |-> "",
                        prev |-> template]
        /\ UNCHANGED <<runVars, phase>>

\* the caller uses the instance for one thing at a time: it calls connect or
\* run again only when no coroutine of an earlier run is still alive
Quiescent == coros = EmptyBag

\* pipeline.validate_inputs_config(data)
Validate(d) ==
    /\ phase = "build"
    /\ err' = IF validate_inputs_config_raises(nodes, edges, d)
              THEN "DefinitionError" ELSE "none"
    /\ lastCall' = [op |-> "validate_inputs_config", a |-> "", b |-> "",
                    prev |-> d]
    /\ UNCHANGED <<graphVars, status, runVars, phase>>

\* Pipeline.from_template(PipelineConfig(**pipeline.show_as_dict())): the
\* caller goes on with the rebuilt pipeline, whose task nodes are new
Rebuild ==
    LET rebuilt == from_template(show_as_dict(nodes, component, edges))
    IN  /\ phase = "build"
        /\ Quiescent
        /\ err' = IF rebuilt.raises THEN "Error" ELSE "none"
        /\ nodes' = rebuilt.nodes
        /\ component' = rebuilt.component
        /\ edges' = rebuilt.edges
        /\ status' = [n \in Names |-> "UNKNOWN"]
        /\ lastCall' = [op |-> "from_template", a |-> "", b |-> "",
                        prev |-> <<nodes, component, edges>>]
        /\ UNCHANGED <<runVars, phase>>

\* get_query_tail(retrieval_query, return_properties, fallback_return)
GetQueryTail(retrieval_query, return_properties, fallback_return) ==
    /\ err' = "none"
    /\ lastCall' = [op |-> "get_query_tail",
                    a |-> <<retrieval_query, return_properties, fallback_return>>,
                    b |-> get_query_tail(retrieval_query, return_properties,
                                         fallback_return),
                    prev |-> ""]
    /\ UNCHANGED <<graphVars, status, runVars, phase>>

-----------------------------------------------------------------------------
(* Running the pipeline *)

\* the first exception under the current run's gather is the one the run
\* raises; nothing awaits the coroutines an earlier, failed run left behind
Fail(r, exc) == IF r = runNo /\ failed = "none" THEN exc ELSE failed

\* the coroutines asyncio.gather starts for run_task(n, data), n in `names`
RECURSIVE Spawn(_, _, _)
Spawn(names, i, r) ==
    IF i > Len(names) THEN EmptyBag
    ELSE SetToBag({Coro(names[i], r)}) (+) Spawn(names, i + 1, r)

SpawnSet(S, r) == SetToBag({Coro(n, r) : n \in S})

Live(r) == \E c \in BagToSet(coros) : c.run = r

\* Pipeline.run that calls reinitialize before validate_inputs_config
RunStart_resets_first(d) ==
    LET fresh == reinitialize(nodes, [status |-> status,
                     store |-> store, final |-> final])
        bad == validate_inputs_config_raises(nodes, edges, d)
    IN  /\ phase \in {"build", "returned", "raised"}
        /\ runNo < MaxRuns
        /\ runNo' = runNo + 1
        /\ lastCall' = [op |-> "run", a |-> "", b |-> "", prev |-> d]
        /\ data' = [r \in Runs |-> IF r = runNo + 1 THEN d
                                    ELSE IF Live(r) THEN data[r] ELSE NoData]
        /\ returned' = AllAbsent
        /\ store' = fresh.store
        /\ final' = fresh.final
        /\ status' = fresh.status
        /\ phase' = IF bad THEN "raised" ELSE "running"
        /\ err' = IF bad THEN "DefinitionError" ELSE "none"
        /\ failed' = IF bad THEN "DefinitionError" ELSE "none"
        /\ calls' = IF bad THEN calls ELSE [n \in Names |-> 0]
        /\ invoked' = IF bad THEN invoked ELSE [n \in Names |-> EmptyDict]
        /\ coros' = IF bad THEN coros
                    ELSE coros (+) SpawnSet(roots(nodes, edges), runNo + 1)
        /\ UNCHANGED <<graphVars, wrote>>

\* Pipeline.run(data) up to the await of Orchestrator.run's gather:
\* validate_inputs_config, reinitialize, one run_task per root
RunStart(d) ==
    /\ phase \in {"build", "returned", "raised"}
    /\ runNo < MaxRuns
    /\ runNo' = runNo + 1
    /\ lastCall' = [op |-> "run", a |-> "", b |-> "", prev |-> d]
    \* the dict of an earlier run stays alive while its coroutines do
    /\ data' = [r \in Runs |-> IF r = runNo + 1 THEN d
                                ELSE IF Live(r) THEN data[r] ELSE NoData]
    /\ returned' = AllAbsent
    /\ UNCHANGED wrote
    /\ IF validate_inputs_config_raises(nodes, edges, d)
       THEN /\ phase' = "raised"
            /\ err' = "DefinitionError"
            /\ failed' = "DefinitionError"
            /\ UNCHANGED <<graphVars, status, store, final, coros, calls,
                           invoked>>
       ELSE /\ phase' = "running"
            /\ err' = "none"
            /\ LET fresh == reinitialize(nodes, [status |-> status,
                                 store |-> store, final |-> final])
               IN  /\ store' = fresh.store
                   /\ final' = fresh.final
                   /\ status' = fresh.status
            /\ calls' = [n \in Names |-> 0]
            /\ invoked' = [n \in Names |-> EmptyDict]
            /\ coros' = coros (+) SpawnSet(roots(nodes, edges), runNo + 1)
            /\ failed' = "none"
            /\ UNCHANGED graphVars

\* Orchestrator.run_task up to the first yield inside component.run:
\* input resolution, then TaskPipelineNode.run / execute up to the call
StartTask(c) ==
    LET cfg == get_input_config_for_task(edges, status, c.task)
        got == get_component_inputs(c.task, cfg.input_config, data[c.run], store)
        rest == coros (-) SetToBag({c})
    IN  /\ c.pc = "spawned"
        /\ IF cfg.raises
           THEN /\ failed' = Fail(c.run, "MissingDependencyError")
                /\ coros' = rest
                /\ UNCHANGED <<status, data, calls, invoked>>
           ELSE IF got.raises
           THEN /\ failed' = Fail(c.run, "KeyError")
                /\ coros' = rest
                /\ UNCHANGED <<status, data, calls, invoked>>
           ELSE /\ data' = [data EXCEPT ![c.run] = got.input_data]
                /\ IF set_status_raises(status[c.task], "RUNNING")
                   THEN \* execute returns None, run returns
                        /\ coros' = rest (+) Spawn(noop_successors(edges, status,
                                                       c.task), 1, c.run)
                        /\ UNCHANGED <<status, calls, invoked, failed>>
                   ELSE /\ status' = [status EXCEPT ![c.task] = set_status(@, "RUNNING")]
                        /\ calls' = [calls EXCEPT ![c.task] = @ + 1]
                        /\ invoked' = [invoked EXCEPT ![c.task] = got.inputs]
                        /\ coros' = rest (+) SetToBag({[c EXCEPT !.pc = "component",
                                                                !.inputs = got.inputs]})
                        /\ UNCHANGED failed
        /\ UNCHANGED <<graphVars, store, final, wrote, phase, runNo, returned,
                       err, lastCall>>

\* orchestrator.run_task(task, data) called on its own: the coroutine is
\* scheduled and starts later
RunTask(name) ==
    /\ phase = "build"
    /\ name \in nodes
    /\ BagCardinality(coros) < MaxTasks
    /\ coros' = coros (+) SetToBag({Coro(name, 0)})
    /\ err' = "none"
    /\ lastCall' = [op |-> "run_task", a |-> name, b |-> "", prev |-> ""]
    /\ UNCHANGED <<graphVars, status, store, final, data, failed, phase,
                   runNo, calls, invoked, wrote, returned>>

\* component.run returns: the rest of execute, then the completion callback
\* (Pipeline.on_task_complete, next, gather of the ready successors)
FinishTask(c) ==
    LET result == component_run(c.task, c.inputs)
        rest == coros (-) SetToBag({c})
        st == [status EXCEPT ![c.task] = set_status(@, "DONE")]
        saved == add_result_for_component([store |-> store, final |-> final],
                     c.task, result, is_leaf(edges, c.task))
    IN  /\ c.pc = "component"
        /\ IF set_status_raises(status[c.task], "DONE")
           THEN /\ failed' = Fail(c.run, "StatusUpdateError")
                /\ coros' = rest
                /\ UNCHANGED <<status, store, final, wrote>>
           ELSE /\ status' = st
                /\ store' = saved.store
                /\ final' = saved.final
                /\ wrote' = IF is_leaf(edges, c.task)
                            THEN [wrote EXCEPT ![c.task] = c.run] ELSE wrote
                /\ coros' = rest (+) Spawn(next(edges, st, c.task), 1, c.run)
                /\ UNCHANGED failed
        /\ UNCHANGED <<graphVars, data, calls, invoked, phase, runNo, returned,
                       err, lastCall>>

\* a failing component whose task is put back and run again
FailTask_retried(c) ==
    /\ c.pc = "component"
    /\ calls[c.task] < 2
    /\ failed' = Fail(c.run, "ComponentError")
    /\ status' = [status EXCEPT ![c.task] = "SCHEDULED"]
    /\ coros' = (coros (-) SetToBag({c})) (+) SetToBag({Coro(c.task, c.run)})
    /\ UNCHANGED <<graphVars, store, final, data, calls, invoked,
                   wrote, phase, runNo, returned, err, lastCall>>

\* component.run raises: the exception leaves execute, run and run_task
FailTask(c) ==
    /\ c.pc = "component"
    /\ failed' = Fail(c.run, "ComponentError")
    /\ coros' = coros (-) SetToBag({c})
    /\ UNCHANGED <<graphVars, status, store, final, data, calls, invoked,
                   wrote, phase, runNo, returned, err, lastCall>>

\* every coroutine under Orchestrator.run's gather is over: Pipeline.run
\* returns self._final_results.all()
RunReturn ==
    /\ phase = "running"
    /\ failed = "none"
    /\ ~Live(runNo)
    /\ phase' = "returned"
    /\ returned' = final
    /\ err' = "none"
    /\ UNCHANGED <<graphVars, status, store, final, data, coros, failed,
                   runNo, calls, invoked, wrote, lastCall>>

\* the first exception under the gather reaches Pipeline.run's caller; the
\* other coroutines of the run are not cancelled by it
RunRaise ==
    /\ phase = "running"
    /\ failed # "none"
    /\ phase' = "raised"
    /\ err' = failed
    /\ UNCHANGED <<graphVars, status, store, final, data, coros, failed,
                   runNo, calls, invoked, wrote, returned, lastCall>>

-----------------------------------------------------------------------------
(* Specifications *)

\* the position of the pair (start, end) in the order the run
\* specifications connect the pairs in
PairRank(start, end) ==
    LET pos(n) == CASE n = "A" -> 0 [] n = "B" -> 1 [] OTHER -> 2
    IN  3 * pos(start) + pos(end)

\* connect calls between distinct components, in the order of PairRank
Assemble ==
    \E s \in Names : \E e \in Names \ {s} : \E cfg \in ConfigsFor(s) :
        /\ Quiescent
        /\ \A i \in 1..Len(edges) :
               PairRank(edges[i].start, edges[i].end) < PairRank(s, e)
        /\ Connect(s, e, cfg)

\* assembling a pipeline over three components, then running it
Next ==
    \/ Assemble
    \/ \E d \in DataChoices(runNo + 1) : Quiescent /\ RunStart(d)
    \/ \E c \in BagToSet(coros) : StartTask(c)
    \/ \E c \in BagToSet(coros) : FinishTask(c)
    \/ \E c \in BagToSet(coros) : FailTask(c)
    \/ RunReturn
    \/ RunRaise

Spec == Init /\ [][Next]_vars

\* the same with components that never fail, under asyncio's scheduling:
\* a ready coroutine is eventually run
NextNoFail ==
    \/ Assemble
    \/ \E d \in DataChoices(runNo + 1) : Quiescent /\ RunStart(d)
    \/ \E c \in BagToSet(coros) : StartTask(c)
    \/ \E c \in BagToSet(coros) : FinishTask(c)
    \/ RunReturn

SpecNoFail ==
    /\ Init
    /\ [][NextNoFail]_vars
    /\ WF_vars(\E c \in BagToSet(coros) : StartTask(c))
    /\ WF_vars(\E c \in BagToSet(coros) : FinishTask(c))
    /\ WF_vars(RunReturn)

\* the caller runs the pipeline, and runs it again as soon as a run has
\* raised a component's failure, whether or not coroutines of the aborted
\* run are still alive; the components do not fail in the last run
FirstRun == phase = "build" /\ \E d \in DataChoices(1) : RunStart(d)

RunAgain ==
    /\ phase = "raised"
    /\ err = "ComponentError"
    /\ \E d \in DataChoices(runNo + 1) : RunStart(d)

NextRetry ==
    \/ FirstRun
    \/ RunAgain
    \/ \E c \in BagToSet(coros) : StartTask(c)
    \/ \E c \in BagToSet(coros) : FinishTask(c)
    \/ \E c \in BagToSet(coros) : c.run < MaxRuns /\ FailTask(c)
    \/ RunReturn
    \/ RunRaise

SpecRetry == InitRetry /\ [][NextRetry]_vars

\* the same, the caller waiting for the coroutines of the aborted run to be
\* over before it runs the pipeline again
NextRetryQuiescent ==
    \/ FirstRun
    \/ Quiescent /\ RunAgain
    \/ \E c \in BagToSet(coros) : StartTask(c)
    \/ \E c \in BagToSet(coros) : FinishTask(c)
    \/ \E c \in BagToSet(coros) : c.run < MaxRuns /\ FailTask(c)
    \/ RunReturn
    \/ RunRaise

SpecRetryQuiescent == InitRetry /\ [][NextRetryQuiescent]_vars

\* pipelines built from templates
NextTemplate == \E t \in Templates : FromTemplate(t)

SpecTemplate == InitEmpty /\ [][NextTemplate]_vars

\* calls on the task nodes of a pipeline that is not running
NextStatus ==
    \/ \E n \in Names, s \in RunStatus : SetStatus(n, s)
    \/ \E n \in Names : ReinitializeTask(n)

SpecStatus == Init /\ [][NextStatus]_vars

\* assembling a pipeline from nothing
NextGraph ==
    \/ \E n \in Names : AddComponent(n, "c1")
    \/ \E s \in Names, e \in Names : \E cfg \in ConfigsFor(s) :
           Len(edges) < MaxEdges /\ Connect(s, e, cfg)

SpecGraph == InitEmpty /\ [][NextGraph]_vars

\* adding, replacing and connecting components
NextNodes ==
    \/ \E n \in Names, k \in Components : AddComponent(n, k)
    \/ \E n \in Names, k \in Components : SetComponent(n, k)
    \/ \E s \in Names : \E e \in Names \ {s} : \E cfg \in ConfigsFor(s) :
           Len(edges) < MaxMapped /\ Connect(s, e, cfg)
    \/ Rebuild

SpecNodes == InitEmpty /\ [][NextNodes]_vars

\* connecting three components with all kinds of mappings, and validating
NextValidate ==
    \/ \E s \in Names : \E e \in Names \ {s} : \E cfg \in ValidateConfigs(s) :
           Len(edges) < MaxMapped /\ Connect(s, e, cfg)
    \/ \E d \in ValidateData : Validate(d)

SpecValidate == Init /\ [][NextValidate]_vars

\* run_task called on the tasks of a pipeline, two calls at a time at most,
\* with a task that is not running reset for another call
NextTask ==
    \/ \E n \in Names : RunTask(n)
    \/ \E n \in Names :
           /\ status[n] # "RUNNING"
           /\ calls[n] < MaxCalls
           /\ ReinitializeTask(n)
    \/ \E c \in BagToSet(coros) : StartTask(c)
    \/ \E c \in BagToSet(coros) : FinishTask(c)

SpecTask == InitTask /\ [][NextTask]_vars

\* calls of get_query_tail
NextQuery ==
    \E rq \in RetrievalQueries, rp \in ReturnProperties, fb \in FallbackReturns :
        GetQueryTail(rq, rp, fb)

SpecQuery == Init /\ [][NextQuery]_vars

-----------------------------------------------------------------------------
(* Properties *)

\* the (start, end) pairs of a sequence of edges
Pairs(E) == {<<E[i].start, E[i].end>> : i \in 1..Len(E)}

\* a set of pairs is acyclic when the names can be ranked so that every
\* pair goes from a lower rank to a higher one
AcyclicPairs(P) ==
    \E rank \in [Names -> 1..Cardinality(Names)] :
        \A p \in P : rank[p[1]] < rank[p[2]]

Preds(name) == {p[1] : p \in {q \in Pairs(edges) : q[2] = name}}

Leaves == {n \in nodes : \A p \in Pairs(edges) : p[1] # n}

\* C3: set_status(s) raises StatusUpdateError and leaves the status as it
\* was when s is the current status or when s is RUNNING and the current
\* status is DONE; for every other pair it succeeds and the status becomes
\* s (so that repeating the call finds s current, and fails).
C3_SetStatusTransitions ==
    lastCall.op = "set_status" =>
        IF \/ lastCall.b = lastCall.prev
           \/ lastCall.b = "RUNNING" /\ lastCall.prev = "DONE"
        THEN err = "StatusUpdateError" /\ status[lastCall.a] = lastCall.prev
        ELSE err = "none" /\ status[lastCall.a] = lastCall.b

\* a DONE task was asked to go RUNNING, and refused
C3_Witness ==
    /\ lastCall.op = "set_status"
    /\ lastCall.prev = "DONE"
    /\ lastCall.b = "RUNNING"
    /\ err = "StatusUpdateError"
    /\ status[lastCall.a] = "DONE"

\* C9: on a graph that is a DAG, connect between two existing components
\* raises DefinitionError exactly when the graph with the new edge has a
\* cycle (a self-loop included).
C9_ConnectRaisesIffCycle ==
    (/\ lastCall.op = "connect"
     /\ lastCall.a \in nodes
     /\ lastCall.b \in nodes
     /\ AcyclicPairs(Pairs(lastCall.prev)))
    => (err = "DefinitionError"
        <=> ~AcyclicPairs(Pairs(lastCall.prev) \cup {<<lastCall.a, lastCall.b>>}))

\* connect(B, A) after connect(A, B) on a DAG was refused
C9_Witness ==
    /\ lastCall.op = "connect"
    /\ lastCall.a \in nodes
    /\ lastCall.b \in nodes
    /\ lastCall.a # lastCall.b
    /\ AcyclicPairs(Pairs(lastCall.prev))
    /\ <<lastCall.b, lastCall.a>> \in Pairs(lastCall.prev)
    /\ err = "DefinitionError"

\* C10: after any sequence of connect calls, rejected ones included, the
\* graph's edge set is acyclic.
C10_EdgesAlwaysAcyclic == AcyclicPairs(Pairs(edges))

\* the payload a task's component produced in the current run
Produced(name) == component_run(name, invoked[name])

\* the state is one of a run that has passed the reset at its start
InRun ==
    \/ phase \in {"running", "returned"}
    \/ phase = "raised" /\ failed # "DefinitionError"

\* C1: a task with two or more predecessors is invoked at most once in a
\* run, only when all its predecessors are DONE, and exactly once by the
\* time the run returns with all its predecessors DONE.
C1_FanInInvokedOnce ==
    \A c \in nodes :
        (InRun /\ Cardinality(Preds(c)) >= 2) =>
            /\ calls[c] <= 1
            /\ calls[c] >= 1 => \A p \in Preds(c) : status[p] = "DONE"
            /\ (phase = "returned" /\ \A p \in Preds(c) : status[p] = "DONE")
                   => calls[c] = 1

\* a run returned after a task with two predecessors was invoked
C1_Witness ==
    /\ phase = "returned"
    /\ \E c \in nodes : Cardinality(Preds(c)) = 2 /\ calls[c] = 1

\* C2: a task whose status is RUNNING or DONE has every predecessor DONE.
C2_StartedAfterPredecessors ==
    \A n \in nodes :
        (InRun /\ status[n] \in {"RUNNING", "DONE"}) =>
            \A p \in Preds(n) : status[p] = "DONE"

\* a task with a predecessor is running
C2_Witness ==
    /\ phase = "running"
    /\ \E n \in nodes : status[n] = "RUNNING" /\ Preds(n) # {}

\* C4: with components that never fail, a run of an acyclic pipeline
\* terminates, and when it returns every task is DONE and every component
\* was invoked exactly once in it; in the first run and in the later ones.
C4_AcyclicRunCompletes ==
    /\ [](phase = "returned" /\ AcyclicPairs(Pairs(edges))
            => \A n \in nodes : status[n] = "DONE" /\ calls[n] = 1)
    /\ (phase = "running" /\ AcyclicPairs(Pairs(edges))) ~> (phase = "returned")

\* a second run of a pipeline with a fan-in returned
C4_Witness ==
    /\ phase = "returned"
    /\ runNo = 2
    /\ AcyclicPairs(Pairs(edges))
    /\ \E n \in nodes : Cardinality(Preds(n)) = 2

\* C5: when run returns normally, the keys of the mapping it returns are
\* exactly the leaf tasks, each with the payload its component produced in
\* this run.
C5_ReturnedIsLeaves ==
    phase = "returned" =>
        /\ {n \in Names : returned[n] # Absent} = Leaves
        /\ \A n \in Leaves : returned[n] = Produced(n)

\* the edges that route x from field y of their start component
FieldEdges ==
    {i \in 1..Len(edges) :
        /\ "x" \in DOMAIN edges[i].cfg.items
        /\ edges[i].cfg.items["x"] = <<edges[i].start, "y">>}

\* the task at the end of edge i was invoked with x = y of what the task at
\* its start produced in this run
ReceivedFromStart(i) ==
    (InRun /\ calls[edges[i].end] >= 1) =>
        /\ calls[edges[i].start] = 1
        /\ "x" \in DOMAIN invoked[edges[i].end]
        /\ invoked[edges[i].end]["x"] = IntV(Produced(edges[i].start).v)

\* C6 as stated: for every edge P1 -> P2 that routes x from P1.y, P2 is
\* invoked with x equal to field y of P1's result of this run.
C6_EveryMappedEdge == \A i \in FieldEdges : ReceivedFromStart(i)

\* C6 as amended: the same, for an edge after which no other incoming edge
\* of P2 maps x.
C6_LastMappedEdge ==
    \A i \in FieldEdges :
        (\A j \in (i + 1)..Len(edges) :
            edges[j].end = edges[i].end => "x" \notin DOMAIN edges[j].cfg.items)
        => ReceivedFromStart(i)

\* P2 was invoked with the y that P1 produced from the user's x
C6_Witness ==
    \E i \in FieldEdges :
        /\ InRun
        /\ calls[edges[i].end] = 1
        /\ "x" \in DOMAIN invoked[edges[i].start]
        /\ invoked[edges[i].end]["x"] = IntV(Produced(edges[i].start).v)

\* C7: the mapping the second (or a later) run returns holds only entries
\* written in that run, each the payload produced in it.
C7_NoStaleFinalResults ==
    (phase = "returned" /\ runNo >= 2) =>
        \A n \in Names :
            returned[n] # Absent =>
                /\ wrote[n] = runNo
                /\ calls[n] = 1
                /\ returned[n] = Produced(n)

\* the second run returned without the entry the first run had written for
\* a task that is a leaf no more
C7_Witness ==
    /\ phase = "returned"
    /\ runNo = 2
    /\ \E n \in Names : wrote[n] = 1 /\ returned[n] = Absent
    /\ \E n \in Names : returned[n] # Absent

\* C8: run never returns normally with a mapping that lacks the entry of a
\* leaf.
C8_NoPartialReturn ==
    phase = "returned" => \A n \in Leaves : returned[n] # Absent

\* C11: a connect call that names a start or an end that is no component
\* of the pipeline raises DefinitionError and changes neither the node set
\* nor the edge set.
C11_ConnectUnknownEndpoint ==
    [][(/\ lastCall'.op = "connect"
        /\ (lastCall'.a \notin nodes \/ lastCall'.b \notin nodes))
       => (/\ err' = "DefinitionError"
           /\ nodes' = nodes
           /\ edges' = edges)]_vars

\* a connect to a name that is no component was rejected, with an edge
\* already in the graph
C11_Witness ==
    /\ lastCall.op = "connect"
    /\ lastCall.a \in nodes
    /\ lastCall.b \notin nodes
    /\ err = "DefinitionError"
    /\ Len(edges) >= 1
    /\ edges = lastCall.prev

\* the mappings of all the edges
Mappings ==
    UNION {{edges[i].cfg.items[p] : p \in DOMAIN edges[i].cfg.items} :
              i \in 1..Len(edges)}

\* the parameters of a task that an incoming edge maps
MappedParams(name) ==
    UNION {DOMAIN edges[i].cfg.items :
              i \in {j \in 1..Len(edges) : edges[j].end = name}}

\* the parameters the user's data gives for a task
UserParams(input_data, name) ==
    IF name \in DOMAIN input_data THEN DOMAIN input_data[name] ELSE {}

\* every mapping is a bare component name or names a declared output
AllMappedFieldsValid ==
    \A m \in Mappings :
        Len(m) = 1 \/ (Len(m) = 2 /\ m[2] \in ComponentOutputs(m[1]))

\* some task has a mandatory parameter that neither the user's data nor an
\* incoming edge covers
SomeInputMissing(input_data) ==
    \E n \in nodes : \E p \in MandatoryInputs(n) :
        p \notin UserParams(input_data, n) /\ p \notin MappedParams(n)

\* C12: when all mapped fields are valid, validate_inputs_config raises
\* DefinitionError exactly when some task has a mandatory parameter that is
\* neither given by the user for that task nor mapped by an incoming edge.
C12_ValidateMandatoryInputs ==
    (lastCall.op = "validate_inputs_config" /\ AllMappedFieldsValid) =>
        (err = "DefinitionError" <=> SomeInputMissing(lastCall.prev))

\* validation passed with the mandatory parameter of C covered by an
\* incoming mapping only
C12_Witness ==
    /\ lastCall.op = "validate_inputs_config"
    /\ AllMappedFieldsValid
    /\ "x" \in MappedParams("C")
    /\ "x" \notin UserParams(lastCall.prev, "C")
    /\ err = "none"

\* C13: validate_inputs_config raises DefinitionError whenever some mapping
\* is 'component.field' with a field the component does not declare, and
\* accepts bare component names without an output check.
C13_ValidateMappedFields ==
    lastCall.op = "validate_inputs_config" =>
        /\ (\E m \in Mappings : Len(m) = 2 /\ m[2] \notin ComponentOutputs(m[1]))
               => err = "DefinitionError"
        /\ ((\A m \in Mappings : Len(m) = 1)
                /\ ~SomeInputMissing(lastCall.prev))
               => err = "none"

\* the same for fields with a name that is not empty
C13_NonEmptyFields ==
    lastCall.op = "validate_inputs_config" =>
        /\ (\E m \in Mappings :
               Len(m) = 2 /\ m[2] # "" /\ m[2] \notin ComponentOutputs(m[1]))
               => err = "DefinitionError"
        /\ ((\A m \in Mappings : Len(m) = 1)
                /\ ~SomeInputMissing(lastCall.prev))
               => err = "none"

\* C14: add_component fails for a name that is taken and leaves the node,
\* its component and the edges as they were; set_component fails for a name
\* that is not present; every name is bound to exactly one component.
C14_ComponentNames ==
    /\ [][/\ (lastCall'.op = "add_component" /\ lastCall'.a \in nodes)
               => (/\ err' = "ValueError"
                   /\ UNCHANGED <<nodes, component, edges, status>>)
          /\ (lastCall'.op = "set_component" /\ lastCall'.a \notin nodes)
               => (/\ err' = "ValueError"
                   /\ UNCHANGED <<nodes, component, edges, status>>)]_vars
    /\ [](\A n \in Names : n \in nodes <=> component[n] \in Components)

\* add_component with another component was rejected for a name that is
\* taken and has an edge
C14_Witness ==
    /\ lastCall.op = "add_component"
    /\ err = "ValueError"
    /\ lastCall.a \in nodes
    /\ component[lastCall.a] # lastCall.b
    /\ \E i \in 1..Len(edges) : edges[i].start = lastCall.a

ReturnClause(props) ==
    CASE Len(props) = 1 ->
           "RETURN node {." \o props[1] \o "} as node, score"
      [] Len(props) = 2 ->
           "RETURN node {." \o props[1] \o ", ." \o props[2]
               \o "} as node, score"
      [] OTHER ->
           "RETURN node {." \o props[1] \o ", ." \o props[2] \o ", ." \o props[3]
               \o "} as node, score"

\* C16: get_query_tail returns the retrieval query when it is not empty,
\* whatever the other arguments; else the RETURN clause of return_properties
\* when that list is not empty, whatever the fallback; else the fallback,
\* or the empty string when none is given.
C16_QueryTailPrecedence ==
    lastCall.op = "get_query_tail" =>
        LET rq == lastCall.a[1]
            rp == lastCall.a[2]
            fb == lastCall.a[3]
            hasQuery == ~rq.none /\ rq.v # ""
            hasProps == ~rp.none /\ rp.v # <<>>
        IN  /\ hasQuery => lastCall.b = rq.v
            /\ (~hasQuery /\ hasProps) => lastCall.b = ReturnClause(rp.v)
            /\ (~hasQuery /\ ~hasProps) =>
                   lastCall.b = (IF fb.none THEN "" ELSE fb.v)

\* without a retrieval query, the properties name and age won over the
\* fallback HELLO
C16_Witness ==
    /\ lastCall.op = "get_query_tail"
    /\ lastCall.a = <<NoneStr, SomeList(<<"name", "age">>), SomeStr("HELLO")>>
    /\ lastCall.b = "RETURN node {.name, .age} as node, score"

\* the step starts the coroutine c: run_task resolves the inputs and goes
\* on into task.run / execute
Started(c) ==
    /\ c.pc = "spawned"
    /\ CopiesIn(c, coros') = CopiesIn(c, coros) - 1

\* the step ends the coroutine c, which was inside component.run
Finished(c) ==
    /\ c.pc = "component"
    /\ CopiesIn(c, coros') = CopiesIn(c, coros) - 1

\* run_task for c gets as far as execute: the inputs resolve
ExecuteReached(c) ==
    LET cfg == get_input_config_for_task(edges, status, c.task)
    IN  /\ ~cfg.raises
        /\ ~get_component_inputs(c.task, cfg.input_config, data[c.run],
                                 store).raises

\* the step adds no coroutine that is inside component.run
NoneInvoked ==
    \A d \in BagToSet(coros') :
        d.pc = "component" => CopiesIn(d, coros') <= CopiesIn(d, coros)

\* C18: execute on a task that is RUNNING or DONE returns the no-op value:
\* no invocation, no status change, no exception; on any other task it
\* invokes the component once and the status is RUNNING, then DONE when the
\* component returns, with the component's output as the result.
C18_ExecuteNoOpOrOnce ==
    [][\A c \in BagToSet(coros) :
          /\ (Started(c) /\ ExecuteReached(c)) =>
                IF status[c.task] \in {"RUNNING", "DONE"}
                THEN /\ status' = status
                     /\ calls' = calls
                     /\ invoked' = invoked
                     /\ failed' = failed
                     /\ NoneInvoked
                ELSE /\ status' = [status EXCEPT ![c.task] = "RUNNING"]
                     /\ calls' = [calls EXCEPT ![c.task] = @ + 1]
                     /\ ~NoneInvoked
          /\ Finished(c) =>
                /\ status[c.task] = "RUNNING"
                /\ status' = [status EXCEPT ![c.task] = "DONE"]
                /\ calls' = calls
                /\ store'[c.task] = component_run(c.task, c.inputs)]_vars

\* a second run_task of a task whose component is running is about to
\* call execute
C18_Witness ==
    \E c \in BagToSet(coros) :
        /\ c.pc = "spawned"
        /\ status[c.task] = "RUNNING"
        /\ calls[c.task] = 1
        /\ ExecuteReached(c)

\* C19: a run_task whose execute is a no-op writes nothing to the stores
\* and starts no successor; the stores are written only when a component
\* has returned.
C19_NoOpRecordsNothing ==
    [][\A c \in BagToSet(coros) :
          /\ Started(c) =>
                /\ store' = store
                /\ final' = final
                /\ wrote' = wrote
          /\ (Started(c) /\ status[c.task] \in {"RUNNING", "DONE"}) =>
                coros' = coros (-) SetToBag({c})
          /\ Finished(c) =>
                /\ store'[c.task] # Absent
                /\ is_leaf(edges, c.task) <=> final'[c.task] # Absent]_vars

\* run_task is about to no-op on a task that is DONE and has a successor
\* that is ready to start
C19_Witness ==
    \E c \in BagToSet(coros) :
        /\ c.pc = "spawned"
        /\ status[c.task] = "DONE"
        /\ ExecuteReached(c)
        /\ \E d \in Names :
              /\ <<c.task, d>> \in Pairs(edges)
              /\ status[d] \notin {"RUNNING", "DONE"}
              /\ \A p \in Preds(d) : status[p] = "DONE"

\* C20: when a task completes, next yields the destination d of an outgoing
\* edge exactly when d is neither RUNNING nor DONE and all the predecessors
\* of d are DONE; skipping a destination raises nothing.
C20_NextYieldsReady ==
    [][\A c \in BagToSet(coros) :
          Finished(c) =>
              /\ failed' = failed
              /\ \A d \in Names :
                    CopiesIn(Coro(d, c.run), coros')
                        - CopiesIn(Coro(d, c.run), coros)
                    = IF /\ <<c.task, d>> \in Pairs(edges)
                         /\ status'[d] \notin {"RUNNING", "DONE"}
                         /\ \A p \in Preds(d) : status'[p] = "DONE"
                      THEN 1 ELSE 0]_vars

\* A completed: B was started and C, which waits for B, was skipped
C20_Witness ==
    /\ status["A"] = "DONE"
    /\ calls["A"] = 1
    /\ store["A"] # Absent
    /\ status["B"] = "UNKNOWN"
    /\ status["C"] = "UNKNOWN"
    /\ CopiesIn(Coro("B", 0), coros) = 1
    /\ CopiesIn(Coro("C", 0), coros) = 0

\* the predecessors of a task that a mapping of one of its incoming edges
\* names
MappedPreds(name) ==
    {p \in Preds(name) :
        \E i \in 1..Len(edges) :
            /\ edges[i].end = name
            /\ ~edges[i].cfg.none
            /\ \E q \in DOMAIN edges[i].cfg.items :
                   SplitMapping(edges[i].cfg.items[q]).component = p}

\* C17: when run_task resolves the inputs of a task whose predecessors are
\* all DONE, the result store holds, for every predecessor an incoming edge
\* maps from, the result that predecessor produced in the current run.
C17_StoreHoldsPredecessorResults ==
    [][\A c \in BagToSet(coros) :
          (/\ Started(c)
           /\ ~get_input_config_for_task(edges, status, c.task).raises) =>
              \A p \in MappedPreds(c.task) :
                  /\ ~store_get_raises(store, p)
                  /\ calls[p] = 1
                  /\ store[p] = Produced(p)]_vars

\* in a second run, a task with two mapped predecessors has had its inputs
\* resolved from the store and is running
C17_Witness ==
    \E n \in nodes :
        /\ phase = "running"
        /\ runNo = 2
        /\ status[n] = "RUNNING"
        /\ calls[n] = 1
        /\ Cardinality(MappedPreds(n)) >= 2
        /\ \A p \in MappedPreds(n) : store[p] = Produced(p)


\* the step in which the component of coroutine c returns and its task
\* becomes DONE
Completed(c) ==
    /\ Finished(c)
    /\ status[c.task] = "RUNNING"
    /\ status'[c.task] = "DONE"

\* the coroutines the step creates
Created ==
    {d \in BagToSet(coros') : CopiesIn(d, coros') > CopiesIn(d, coros)}

\* C21: when a task completes, its result is in the result store under its
\* name, and in the final results exactly when the task is a leaf; the
\* successors the completion starts exist only with that record in place
\* and have not yet run.
C21_ResultRecordedOnCompletion ==
    [][\A c \in BagToSet(coros) :
          Completed(c) =>
              LET result == component_run(c.task, c.inputs)
              IN  /\ store' = [store EXCEPT ![c.task] = result]
                  /\ final'[c.task] =
                         IF is_leaf(edges, c.task) THEN result ELSE Absent
                  /\ \A n \in Names \ {c.task} : final'[n] = final[n]
                  /\ \A d \in Created :
                         /\ d.pc = "spawned"
                         /\ <<c.task, d.task>> \in Pairs(edges)
                         /\ store'[c.task] = result]_vars

\* a task that is not a leaf is DONE with its result in the result store
\* only, and a successor it started has not run yet; a leaf is DONE with
\* its result in both stores
C21_Witness ==
    /\ phase = "running"
    /\ \E t \in nodes :
          /\ status[t] = "DONE"
          /\ ~is_leaf(edges, t)
          /\ store[t] = Produced(t)
          /\ final[t] = Absent
          /\ \E d \in BagToSet(coros) :
                 /\ d.pc = "spawned"
                 /\ d.run = runNo
                 /\ t \in Preds(d.task)
    /\ \E l \in nodes :
          /\ status[l] = "DONE"
          /\ is_leaf(edges, l)
          /\ final[l] = Produced(l)
          /\ store[l] = Produced(l)


\* Pipeline.run has handed control back to its caller, by returning or by
\* raising what a coroutine under its gather raised
RunOver ==
    \/ phase = "returned"
    \/ phase = "raised" /\ failed # "DefinitionError"

\* every branch the run spawned is over and no task is RUNNING
AllJoined ==
    /\ ~Live(runNo)
    /\ \A n \in nodes : status[n] # "RUNNING"

\* C22: when Pipeline.run hands control back to its caller, every branch
\* spawned under it, transitively, has completed, and no task is RUNNING.
C22_StructuredJoin == RunOver => AllJoined

\* the same for a run that returns normally
C22_JoinOnReturn == phase = "returned" => AllJoined


\* the tasks reached from the tasks of S along at most k edges
RECURSIVE Reach(_, _)
Reach(S, k) ==
    IF k = 0 THEN S
    ELSE Reach(S \cup {p[2] : p \in {q \in Pairs(edges) : q[1] \in S}}, k - 1)

Descendants(t) ==
    Reach({p[2] : p \in {q \in Pairs(edges) : q[1] = t}}, Cardinality(Names))

\* the step in which the component of coroutine c raises
Failing(c) ==
    /\ Finished(c)
    /\ ~Completed(c)

\* the tasks whose component raised: RUNNING, with no coroutine inside
\* component.run
FailedTasks ==
    {t \in nodes :
        /\ status[t] = "RUNNING"
        /\ \A c \in BagToSet(coros) : ~(c.task = t /\ c.pc = "component")}

\* C23: a component failure is what Pipeline.run raises (the first one of
\* the run, as it is); the failed task is not invoked again in the run,
\* stays short of DONE, has no result recorded, and none of its descendants
\* is started.
C23_FailurePropagatesNoRetry ==
    /\ [][\A c \in BagToSet(coros) :
             Failing(c) =>
                 /\ status' = status
                 /\ store' = store
                 /\ final' = final
                 /\ calls' = calls
                 /\ Created = {}
                 /\ failed' = IF c.run = runNo /\ failed = "none"
                              THEN "ComponentError" ELSE failed]_vars
    /\ [][\A t \in FailedTasks :
             (InRun /\ runNo' = runNo /\ phase' # "build")
                 => t \in FailedTasks']_vars
    /\ [](InRun =>
            \A t \in FailedTasks :
                /\ calls[t] = 1
                /\ store[t] = Absent
                /\ final[t] = Absent
                /\ failed # "none"
                /\ phase # "returned"
                /\ phase = "raised" => err = failed
                /\ \A d \in Descendants(t) :
                       /\ calls[d] = 0
                       /\ status[d] \notin {"RUNNING", "DONE"}
                       /\ \A c \in BagToSet(coros) : c.task # d)

\* the run has raised the failure of a task that has a descendant, while
\* another task of the run went on to DONE
C23_Witness ==
    /\ phase = "raised"
    /\ err = "ComponentError"
    /\ \E t \in FailedTasks :
          /\ Descendants(t) # {}
          /\ \E n \in nodes \ ({t} \cup Descendants(t)) : status[n] = "DONE"


\* what the user's data holds for the task of coroutine c
UserInputs(c) ==
    IF c.task \in DOMAIN data[c.run] THEN data[c.run][c.task] ELSE EmptyDict

\* the step starts coroutine c on a task that is free to run, with all its
\* predecessors DONE and every component its mappings name in the store
StartedWithMappings(c) ==
    LET cfg == get_input_config_for_task(edges, status, c.task)
    IN  /\ Started(c)
        /\ ~cfg.raises
        /\ status[c.task] \notin {"RUNNING", "DONE"}
        /\ \A p \in DOMAIN cfg.input_config :
               ~store_get_raises(store,
                                 SplitMapping(cfg.input_config[p]).component)

\* C24: a parameter that the user's input gives for a component and that an
\* incoming edge maps reaches the component with the mapped upstream value,
\* and nothing is raised.
C24_MappedOverridesUser ==
    [][\A c \in BagToSet(coros) :
          StartedWithMappings(c) =>
              LET cfg == get_input_config_for_task(edges, status, c.task)
              IN  /\ failed' = failed
                  /\ status'[c.task] = "RUNNING"
                  /\ \A p \in DOMAIN cfg.input_config \cap DOMAIN UserInputs(c) :
                         /\ p \in DOMAIN invoked'[c.task]
                         /\ invoked'[c.task][p] =
                                ResolveMapping(store, cfg.input_config[p])]_vars

\* a task given x = 20 by the user in the second run was invoked with the
\* y its predecessor produced
C24_Witness ==
    \E i \in FieldEdges :
        /\ phase = "running"
        /\ runNo = 2
        /\ calls[edges[i].end] = 1
        /\ invoked[edges[i].start] = [p \in Params |-> IntV(20)]
        /\ invoked[edges[i].end]["x"] = IntV(Produced(edges[i].start).v)
        /\ invoked[edges[i].end]["x"] # IntV(20)


\* C25: a mapping 'component.field' gives the component that field alone of
\* the source's stored result; a mapping 'component' gives it the source's
\* entire stored result.
C25_MappingResolution ==
    [][\A c \in BagToSet(coros) :
          StartedWithMappings(c) =>
              LET cfg == get_input_config_for_task(edges, status, c.task).input_config
              IN  \A p \in DOMAIN cfg :
                      /\ p \in DOMAIN invoked'[c.task]
                      /\ (Len(cfg[p]) = 2 /\ cfg[p][2] = "y") =>
                             /\ store[cfg[p][1]].kind = "dict"
                             /\ invoked'[c.task][p] = IntV(store[cfg[p][1]].v)
                      /\ Len(cfg[p]) = 1 =>
                             /\ store[cfg[p][1]].kind = "dict"
                             /\ invoked'[c.task][p] = store[cfg[p][1]]]_vars

\* one task was invoked with the field y of its predecessor's result and
\* another with the whole result of its predecessor
C25_Witness ==
    /\ InRun
    /\ \E i \in FieldEdges :
          /\ calls[edges[i].end] = 1
          /\ invoked[edges[i].end]["x"] = IntV(Produced(edges[i].start).v)
    /\ \E j \in 1..Len(edges) :
          /\ "x" \in DOMAIN edges[j].cfg.items
          /\ edges[j].cfg.items["x"] = <<edges[j].start>>
          /\ calls[edges[j].end] = 1
          /\ invoked[edges[j].end]["x"] = Produced(edges[j].start)


\* C26: Pipeline.run validates the inputs first (a rejected input leaves
\* stores and statuses as they were and starts nothing), then empties both
\* stores and sets every task to SCHEDULED, then starts the root tasks; no
\* component has been invoked when the roots are started.
C26_RunOrder ==
    [][runNo' = runNo + 1 =>
          IF validate_inputs_config_raises(nodes, edges, data'[runNo'])
          THEN /\ phase' = "raised"
               /\ err' = "DefinitionError"
               /\ store' = store
               /\ final' = final
               /\ status' = status
               /\ Created = {}
          ELSE /\ phase' = "running"
               /\ store' = AllAbsent
               /\ final' = AllAbsent
               /\ \A n \in nodes : status'[n] = "SCHEDULED"
               /\ \A n \in nodes : calls'[n] = 0
               /\ {d.task : d \in Created} = roots(nodes, edges)
               /\ \A d \in BagToSet(coros') : d.run = runNo' => d.pc = "spawned"]_vars

\* the second run has been reset and its roots are about to start, after a
\* first run that returned results
C26_Witness ==
    /\ phase = "running"
    /\ runNo = 2
    /\ lastCall.op = "run"
    /\ store = AllAbsent
    /\ final = AllAbsent
    /\ \A n \in nodes : status[n] = "SCHEDULED" /\ calls[n] = 0
    /\ \E n \in nodes : wrote[n] = 1
    /\ coros # EmptyBag


\* C27: reinitialize() leaves the task SCHEDULED whatever its status was
\* (DONE, RUNNING and SCHEDULED included) and raises nothing.
C27_ReinitializeUnconditional ==
    lastCall.op = "reinitialize" =>
        /\ lastCall.prev \in RunStatus
        /\ status[lastCall.a] = "SCHEDULED"
        /\ err = "none"

\* a task that was SCHEDULED was reinitialized: set_status(SCHEDULED) would
\* have raised
C27_Witness ==
    /\ lastCall.op = "reinitialize"
    /\ lastCall.prev = "SCHEDULED"
    /\ set_status_raises(lastCall.prev, "SCHEDULED")
    /\ status[lastCall.a] = "SCHEDULED"
    /\ err = "none"


\* C28: on a DAG, no run raises MissingDependencyError: every run_task that
\* has been created and has not started yet is for a task whose
\* predecessors are all DONE, so get_input_config_for_task does not raise.
C28_NoMissingDependency ==
    AcyclicPairs(Pairs(edges)) =>
        /\ failed # "MissingDependencyError"
        /\ err # "MissingDependencyError"
        /\ \A c \in BagToSet(coros) :
               c.pc = "spawned" =>
                   /\ \A p \in Preds(c.task) : status[p] = "DONE"
                   /\ ~get_input_config_for_task(edges, status, c.task).raises

\* on a DAG, run_task is about to be entered for a task with two
\* predecessors, both DONE
C28_Witness ==
    /\ AcyclicPairs(Pairs(edges))
    /\ phase = "running"
    /\ failed = "none"
    /\ \E c \in BagToSet(coros) :
          /\ c.pc = "spawned"
          /\ c.run = runNo
          /\ Cardinality(Preds(c.task)) >= 2
          /\ \A p \in Preds(c.task) : status[p] = "DONE"


C29_SetStatusGuarded ==
    \A a \in StatusAccesses :
        (a.op = lastCall.op /\ lastCall.op = "set_status") => a.guarded


\* C30: when connect raises DefinitionError for an edge between two
\* existing components (the graph with the edge has a cycle), the edge it
\* inserted is still in the graph afterwards.
C30_RejectedEdgeStays ==
    (/\ lastCall.op = "connect"
     /\ lastCall.a \in nodes
     /\ lastCall.b \in nodes
     /\ err = "DefinitionError")
    => /\ <<lastCall.a, lastCall.b>> \in Pairs(edges)
       /\ ~AcyclicPairs(Pairs(edges))
       /\ <<lastCall.a, lastCall.b>> \notin Pairs(lastCall.prev)
              => Len(edges) = Len(lastCall.prev) + 1

\* connect(B, A) closed a cycle on a DAG, was refused, and the edge B -> A
\* is in the graph
C30_Witness ==
    /\ lastCall.op = "connect"
    /\ lastCall.a \in nodes
    /\ lastCall.b \in nodes
    /\ lastCall.a # lastCall.b
    /\ err = "DefinitionError"
    /\ AcyclicPairs(Pairs(lastCall.prev))
    /\ <<lastCall.a, lastCall.b>> \notin Pairs(lastCall.prev)
    /\ <<lastCall.a, lastCall.b>> \in Pairs(edges)
    /\ Len(edges) = Len(lastCall.prev) + 1


\* C31: the graph has at most one edge per ordered pair (start, end); a
\* connect for a pair that has an edge already puts the new input_config on
\* that edge and adds no edge.
C31_OneEdgePerPair ==
    /\ \A i, j \in 1..Len(edges) :
           (edges[i].start = edges[j].start /\ edges[i].end = edges[j].end)
               => i = j
    /\ (/\ lastCall.op = "connect"
        /\ lastCall.a \in nodes
        /\ lastCall.b \in nodes) =>
           \E i \in 1..Len(edges) :
               /\ edges[i] = PipelineEdge(lastCall.a, lastCall.b, lastCall.cfg)
               /\ <<lastCall.a, lastCall.b>> \in Pairs(lastCall.prev) =>
                      /\ Len(edges) = Len(lastCall.prev)
                      /\ \A j \in 1..Len(edges) :
                             j # i => edges[j] = lastCall.prev[j]
                      /\ lastCall.prev[i].start = lastCall.a
                      /\ lastCall.prev[i].end = lastCall.b

\* a second connect for a pair changed the input_config of its edge, with
\* another edge in the graph
C31_Witness ==
    /\ lastCall.op = "connect"
    /\ err = "none"
    /\ Len(edges) = 2
    /\ Len(lastCall.prev) = 2
    /\ \E i \in 1..Len(edges) :
          /\ edges[i].start = lastCall.a
          /\ edges[i].end = lastCall.b
          /\ lastCall.prev[i].cfg = NoneCfg
          /\ edges[i].cfg # NoneCfg
          /\ edges[i].cfg = lastCall.cfg


\* C32: during a run the stores are written only when a component has
\* returned, each task's entry at most once; a component has an entry in
\* the result store only if its task is DONE, and in the final results only
\* if it is DONE and a leaf.
C32_StoreWrittenOnCompletionOnly ==
    /\ [][\A n \in Names :
             (runNo' = runNo /\ (store'[n] # store[n] \/ final'[n] # final[n]))
                 => /\ store[n] = Absent
                    /\ final[n] = Absent
                    /\ \E c \in BagToSet(coros) : c.task = n /\ Completed(c)]_vars
    /\ [](InRun =>
            \A n \in Names :
                /\ store[n] # Absent => (n \in nodes /\ status[n] = "DONE")
                /\ final[n] # Absent =>
                       (/\ n \in nodes
                        /\ status[n] = "DONE"
                        /\ is_leaf(edges, n)))

\* in a second run, one task is DONE with its entry in the result store
\* only, and a task that is RUNNING has no entry
C32_Witness ==
    /\ phase = "running"
    /\ runNo = 2
    /\ \E n \in nodes :
          /\ status[n] = "DONE"
          /\ store[n] = Produced(n)
          /\ final[n] = Absent
    /\ \E m \in nodes :
          /\ status[m] = "RUNNING"
          /\ wrote[m] = 1
          /\ store[m] = Absent
          /\ final[m] = Absent


\* C33: in a run every task is SCHEDULED, RUNNING or DONE, and a status
\* changes only from SCHEDULED to RUNNING and from RUNNING to DONE; DONE
\* stays until the next run.
C33_StatusMovesForward ==
    /\ [][\A n \in nodes :
             (runNo' = runNo /\ status'[n] # status[n])
                 => \/ status[n] = "SCHEDULED" /\ status'[n] = "RUNNING"
                    \/ status[n] = "RUNNING" /\ status'[n] = "DONE"]_vars
    /\ [](InRun =>
            \A n \in nodes : status[n] \in {"SCHEDULED", "RUNNING", "DONE"})

\* in a second run one task is DONE, one RUNNING and one still SCHEDULED
C33_Witness ==
    /\ phase = "running"
    /\ runNo = 2
    /\ \E n \in nodes : status[n] = "DONE" /\ calls[n] = 1
    /\ \E n \in nodes : status[n] = "RUNNING" /\ calls[n] = 1
    /\ \E n \in nodes : status[n] = "SCHEDULED" /\ calls[n] = 0


\* the inputs of task n when the results of its predecessors are those of
\* st and the user's data is d
RefInputs(n, st, d) ==
    get_component_inputs(n,
        MergeInputConfig(previous_edges(edges, n), 1, EmptyDict), d, st).inputs

\* one round of running the tasks one after the other: every task that has
\* no result yet and whose predecessors all have one is run
RefRound(st, d) ==
    [n \in Names |->
        IF /\ n \in nodes
           /\ st[n] = Absent
           /\ \A p \in Preds(n) : st[p] # Absent
        THEN component_run(n, RefInputs(n, st, d))
        ELSE st[n]]

RECURSIVE RefEval(_, _, _)
RefEval(st, d, k) == IF k = 0 THEN st ELSE RefEval(RefRound(st, d), d, k - 1)

\* the results of the current run when its tasks are run one at a time
RefStore == RefEval(AllAbsent, lastCall.prev, Cardinality(Names))

\* C34: whatever the interleaving of the branches, every component is
\* invoked with the inputs, and Pipeline.run returns the mapping, that
\* running the tasks one at a time in dependency order gives.
C34_InterleavingIndependent ==
    InRun =>
        /\ \A n \in nodes :
               calls[n] >= 1 =>
                   /\ invoked[n] = RefInputs(n, RefStore, lastCall.prev)
                   /\ status[n] = "DONE" => store[n] = RefStore[n]
        /\ phase = "returned" =>
               returned = [n \in Names |->
                              IF n \in nodes /\ is_leaf(edges, n)
                              THEN RefStore[n] ELSE Absent]

\* a run over two independent branches into one task returned, the
\* branches having been running at the same time
C34_Witness ==
    /\ phase = "returned"
    /\ \E n \in nodes :
          /\ Cardinality(Preds(n)) >= 2
          /\ is_leaf(edges, n)
          /\ \A p \in Preds(n) : Preds(p) = {}
          /\ returned[n] = RefStore[n]
          /\ returned[n] # Absent


\* C35: when Pipeline.run has returned, the data mapping the caller passed
\* holds, for every component, the keys and values it held at the call.
C35_UserDataUnchanged ==
    phase = "returned" => data[runNo] = lastCall.prev

\* the same for the components no incoming edge maps a parameter of
C35_UnmappedDataUnchanged ==
    phase = "returned" =>
        \A n \in DOMAIN lastCall.prev :
            (\A i \in 1..Len(edges) :
                edges[i].end = n => DOMAIN edges[i].cfg.items = {})
            => (n \in DOMAIN data[runNo] /\ data[runNo][n] = lastCall.prev[n])


\* C36: a Pipeline.run whose input validation fails raises DefinitionError
\* and changes nothing: no component is invoked, no task is started, every
\* status and both stores are as they were before the call.
C36_ValidationFailureChangesNothing ==
    [][(/\ runNo' = runNo + 1
        /\ validate_inputs_config_raises(nodes, edges, lastCall'.prev))
       => /\ phase' = "raised"
          /\ err' = "DefinitionError"
          /\ status' = status
          /\ store' = store
          /\ final' = final
          /\ calls' = calls
          /\ invoked' = invoked
          /\ coros' = coros
          /\ nodes' = nodes
          /\ edges' = edges]_vars

\* the second run was rejected by validation, and the statuses and results
\* of the first run are still there
C36_Witness ==
    /\ runNo = 2
    /\ lastCall.op = "run"
    /\ phase = "raised"
    /\ err = "DefinitionError"
    /\ validate_inputs_config_raises(nodes, edges, lastCall.prev)
    /\ \E n \in nodes :
          /\ status[n] = "DONE"
          /\ store[n] # Absent
          /\ final[n] # Absent


\* C37: in a Pipeline.run that follows a run aborted by a component
\* failure, as long as no component fails, nothing else fails either, no
\* task is invoked twice, every final result was written by this run, and
\* when the run returns every task has run once and the mapping returned is
\* that of this run's data.
C37_RetryIsClean ==
    (runNo >= 2 /\ phase # "build" /\ failed # "ComponentError") =>
        /\ failed = "none"
        /\ phase # "raised"
        /\ \A n \in nodes :
               /\ calls[n] <= 1
               /\ final[n] # Absent =>
                      (wrote[n] = runNo /\ final[n] = RefStore[n])
        /\ phase = "returned" =>
               /\ \A n \in nodes : calls[n] = 1 /\ status[n] = "DONE"
               /\ returned = [n \in Names |->
                                 IF n \in nodes /\ is_leaf(edges, n)
                                 THEN RefStore[n] ELSE Absent]

\* the run that follows an aborted run has returned
C37_RetryReturned ==
    /\ runNo >= 2
    /\ phase = "returned"
    /\ \A n \in nodes : calls[n] = 1 /\ status[n] = "DONE"


\* the incoming edges of task n that map parameter p, by position
MappingEdges(n, p) ==
    {i \in 1..Len(edges) :
        edges[i].end = n /\ p \in DOMAIN edges[i].cfg.items}

\* the largest member of a non-empty set of positions
Last(S) == CHOOSE i \in S : \A j \in S : j <= i

\* C38: a task that several incoming edges map the same parameter of is
\* invoked with the value of the mapping of the edge inserted last,
\* whatever the order in which its predecessors completed.
C38_LaterEdgeWins ==
    \A n \in nodes : \A p \in Params :
        (InRun /\ calls[n] >= 1 /\ MappingEdges(n, p) # {}) =>
            LET m == edges[Last(MappingEdges(n, p))].cfg.items[p]
            IN  /\ p \in DOMAIN invoked[n]
                /\ invoked[n][p] = IF Len(m) = 2
                                   THEN DictGet(Produced(m[1]), m[2])
                                   ELSE Produced(m[1])

\* a task with two incoming edges that map x was invoked with the value of
\* the second edge, which is not the value of the first
C38_Witness ==
    \E n \in nodes :
        /\ InRun
        /\ calls[n] = 1
        /\ Cardinality(MappingEdges(n, "x")) = 2
        /\ \E i \in MappingEdges(n, "x") :
              LET m == edges[i].cfg.items["x"]
              IN  /\ i # Last(MappingEdges(n, "x"))
                  /\ calls[m[1]] = 1
                  /\ invoked[n]["x"] # (IF Len(m) = 2
                                        THEN DictGet(Produced(m[1]), m[2])
                                        ELSE Produced(m[1]))


\* the pairs a template's connections join
TemplatePairs(template) ==
    {<<template.connections[i].start, template.connections[i].end>> :
        i \in 1..Len(template.connections)}

\* a connection of the template names something that is no component of it
TemplateUnknownName(template) ==
    \E p \in TemplatePairs(template) : \E k \in 1..2 :
        p[k] \notin {c.name : c \in template.components}

\* C39: from_template raises DefinitionError for a template whose
\* connections form a cycle or name a component that is not in it, and the
\* graph of a pipeline it builds is acyclic.
C39_FromTemplateAcyclic ==
    lastCall.op = "from_template" =>
        /\ (\/ TemplateUnknownName(lastCall.prev)
            \/ ~AcyclicPairs(TemplatePairs(lastCall.prev)))
               => err = "DefinitionError"
        /\ AcyclicPairs(Pairs(edges))

\* what from_template does: a connection to a name that is no component
\* ends it with add_edge's KeyError, and any other template is built as it
\* is given
C39_FromTemplateAsGiven ==
    lastCall.op = "from_template" =>
        IF TemplateUnknownName(lastCall.prev)
        THEN err = "KeyError"
        ELSE /\ err = "none"
             /\ Pairs(edges) = TemplatePairs(lastCall.prev)

=============================================================================
